---------------------------- MODULE Spec2Model ----------------------------
(***************************************************************************)
(* A model of toilet-go-where: the two service functions of               *)
(* src/services/geminiService.ts (findToilets, reverseGeocode), the popup *)
(* component of the map view and the find handler of App.tsx.             *)
(*                                                                         *)
(* JavaScript strings are sequences of one-character strings, so that     *)
(* toLowerCase, join and template literals are computed, not assumed.     *)
(* A JavaScript value is a record [t, v]: t is its type, v its payload    *)
(* (the characters of a string, the decimal digits of a number).          *)
(***************************************************************************)
EXTENDS Integers, Sequences, FiniteSets, TLC

(***************************************************************************)
(* Strings                                                                 *)
(***************************************************************************)
UpperChars ==
    << "A", "B", "C", "D", "E", "F", "G", "H", "I", "J", "K", "L", "M",
       "N", "O", "P", "Q", "R", "S", "T", "U", "V", "W", "X", "Y", "Z" >>

LowerChars ==
    << "a", "b", "c", "d", "e", "f", "g", "h", "i", "j", "k", "l", "m",
       "n", "o", "p", "q", "r", "s", "t", "u", "v", "w", "x", "y", "z" >>

ToLowerChar(c) ==
    IF \E i \in DOMAIN UpperChars : UpperChars[i] = c
    THEN LowerChars[CHOOSE i \in DOMAIN UpperChars : UpperChars[i] = c]
    ELSE c

\* String.prototype.toLowerCase
ToLowerCase(s) == [i \in 1..Len(s) |-> ToLowerChar(s[i])]

Undefined == [t |-> "undefined", v |-> << >>]
Str(s) == [t |-> "string", v |-> s]
Num(digits) == [t |-> "number", v |-> digits]

\* JavaScript truthiness of a value read from JSON
Truthy(x) ==
    CASE x.t = "undefined" -> FALSE
      [] x.t = "string"    -> x.v # << >>
      [] x.t = "number"    -> x.v # << "0" >>

\* String(x), as a template literal and Array.prototype.join apply it
ToStr(x) == x.v

RECURSIVE Join(_, _)
\* Array.prototype.join over a list of JavaScript values
Join(parts, sep) ==
    IF parts = << >> THEN << >>
    ELSE IF Len(parts) = 1 THEN ToStr(parts[1])
    ELSE ToStr(parts[1]) \o sep \o Join(Tail(parts), sep)

RECURSIVE Dedup(_)
\* [...new Set(parts)]: the first occurrence of each value, in order
Dedup(parts) ==
    IF parts = << >> THEN << >>
    ELSE LET front == Dedup(SubSeq(parts, 1, Len(parts) - 1))
             last  == parts[Len(parts)]
         IN  IF \E i \in DOMAIN front : front[i] = last
             THEN front
             ELSE Append(front, last)

\* Array.prototype.filter(Boolean)
RECURSIVE FilterTruthy(_)
FilterTruthy(parts) ==
    IF parts = << >> THEN << >>
    ELSE IF Truthy(Head(parts))
         THEN << Head(parts) >> \o FilterTruthy(Tail(parts))
         ELSE FilterTruthy(Tail(parts))

CommaSpace == << ",", " " >>

DigitChars == << "0", "1", "2", "3", "4", "5", "6", "7", "8", "9" >>

RECURSIVE NumToString(_)
\* Number.prototype.toString of a natural number
NumToString(n) ==
    IF n < 10 THEN << DigitChars[n + 1] >>
    ELSE NumToString(n \div 10) \o << DigitChars[(n % 10) + 1] >>

\* The errors the runtime raises: fetch rejecting, response.json() rejecting,
\* a property read of null or a call of a method a value does not have
FetchFailedMsg == << "f", "a", "i", "l", "e", "d", " ", "t", "o", " ", "f", "e", "t", "c", "h" >>
SyntaxErrorMsg == << "s", "y", "n", "t", "a", "x", " ", "e", "r", "r", "o", "r" >>
TypeErrorMsg == << "t", "y", "p", "e", " ", "e", "r", "r", "o", "r" >>

(***************************************************************************)
(* reverseGeocode (src/services/geminiService.ts:125-180)                 *)
(***************************************************************************)
SingaporeStr == << "s", "i", "n", "g", "a", "p", "o", "r", "e" >>

NetworkErrorMsg ==
    << "u", "n", "k", "n", "o", "w", "n", " ",
       "l", "o", "c", "a", "t", "i", "o", "n", " ",
       "(", "n", "e", "t", "w", "o", "r", "k", " ",
       "e", "r", "r", "o", "r", ")" >>

CouldNotDetermineMsg ==
    << "c", "o", "u", "l", "d", " ", "n", "o", "t", " ",
       "d", "e", "t", "e", "r", "m", "i", "n", "e", " ",
       "a", "d", "d", "r", "e", "s", "s" >>

NominatimFailedPrefix ==
    << "n", "o", "m", "i", "n", "a", "t", "i", "m", " ", "a", "p", "i", " ",
       "f", "a", "i", "l", "e", "d", " ", "w", "i", "t", "h", " ",
       "s", "t", "a", "t", "u", "s", ":", " " >>

LookupFailedPrefix ==
    << "l", "o", "c", "a", "t", "i", "o", "n", " ",
       "l", "o", "o", "k", "u", "p", " ",
       "f", "a", "i", "l", "e", "d", ":", " " >>

\* What a piece of code does: return a value or throw
Return(x) == [kind |-> "return", value |-> x, error |-> << >>]
Throw(msg) == [kind |-> "throw", value |-> << >>, error |-> msg]

\* if (x) parts.push(x)
PushIf(parts, x) == IF Truthy(x) THEN Append(parts, x) ELSE parts

\* lines 147-156: the city part; adr.city.toLowerCase() throws a TypeError
\* when city is truthy and not a string
CityThrows(adr) == Truthy(adr.city) /\ adr.city.t # "string"

CityBranch(parts, adr) ==
    IF Truthy(adr.city) /\ ToLowerCase(adr.city.v) = SingaporeStr
    THEN IF Truthy(adr.postcode)
         THEN Append(parts, Str(SingaporeStr \o << " " >> \o ToStr(adr.postcode)))
         ELSE Append(parts, Str(SingaporeStr))
    ELSE PushIf(PushIf(parts, adr.city), adr.postcode)

\* AddressParts with the road pushed ahead of the house number
AddressPartsRoadFirst(adr) ==
    CityBranch(PushIf(PushIf(PushIf(<< >>, adr.road), adr.house_number), adr.suburb), adr)

\* lines 142-156
AddressParts(adr) ==
    CityBranch(PushIf(PushIf(PushIf(<< >>, adr.house_number), adr.road), adr.suburb), adr)

\* line 158
UniqueAddressParts(adr) == Dedup(AddressParts(adr))

\* lines 165-174, reached when no structured address was returned
RgFallback(data) ==
    IF data.isNull THEN Throw(TypeErrorMsg)
    ELSE IF Truthy(data.display_name)
         THEN IF data.display_name.t = "string"
              THEN Return(ToLowerCase(data.display_name.v))
              ELSE Throw(TypeErrorMsg)
    ELSE IF Truthy(data.error)
         THEN Return(ToLowerCase(LookupFailedPrefix \o ToStr(data.error)))
    ELSE Return(CouldNotDetermineMsg)

\* lines 140-174: the body of the try block once the response has been parsed
RgBody(data) ==
    IF ~data.isNull /\ data.address.present
    THEN IF CityThrows(data.address) THEN Throw(TypeErrorMsg)
         ELSE IF Len(UniqueAddressParts(data.address)) > 0
              THEN Return(ToLowerCase(Join(UniqueAddressParts(data.address), CommaSpace)))
              ELSE RgFallback(data)
    ELSE RgFallback(data)

\* RgCatch with the error thrown on to the caller
RgCatchRethrows(outcome) == outcome

\* lines 176-179: the catch block
RgCatch(outcome) ==
    IF outcome.kind = "throw" THEN Return(NetworkErrorMsg) ELSE outcome

\* How an async function's promise settles
Settle(outcome) ==
    IF outcome.kind = "throw"
    THEN [kind |-> "rejected", value |-> << >>, error |-> outcome.error]
    ELSE [kind |-> "resolved", value |-> outcome.value, error |-> << >>]

Pending == [kind |-> "pending", value |-> << >>, error |-> << >>]

\* Response.ok
ResponseOk(status) == status \in 200..299


(***************************************************************************)
(* The bodies the reverse-geocoding endpoint is simulated to answer with  *)
(***************************************************************************)
HouseNumbers == { Undefined, Str(<< "1", "2" >>) }

Roads == { Undefined, Str(<< >>), Str(<< "U", "b", "i", " ", "R", "d" >>) }

Suburbs ==
    { Undefined,
      Str(<< "U", "b", "i" >>),
      Str(<< "S", "i", "n", "g", "a", "p", "o", "r", "e" >>),
      Str(SingaporeStr) }

Cities ==
    { Undefined,
      Str(<< "U", "b", "i" >>),
      Str(<< "S", "i", "n", "g", "a", "p", "o", "r", "e" >>),
      Str(SingaporeStr),
      Num(<< "5" >>) }

Postcodes == { Undefined, Str(<< "1", "2" >>) }

DisplayNames ==
    { Undefined, Str(<< >>), Str(<< "U", "b", "i", " ", "A", "v", "e" >>), Num(<< "5" >>) }

Errors == { Undefined, Str(<< "N", "o", " ", "H", "i", "t" >>) }

NoAddress ==
    [present |-> FALSE, house_number |-> Undefined, road |-> Undefined,
     suburb |-> Undefined, city |-> Undefined, postcode |-> Undefined]

Addresses ==
    { NoAddress } \cup
    [present : {TRUE}, house_number : HouseNumbers, road : Roads,
     suburb : Suburbs, city : Cities, postcode : Postcodes]

\* JSON null
NullData ==
    [isNull |-> TRUE, address |-> NoAddress, display_name |-> Undefined,
     error |-> Undefined]

GeoData ==
    { NullData } \cup
    [isNull : {FALSE}, address : Addresses, display_name : DisplayNames,
     error : Errors]

\* A body: text that response.json() cannot parse, or the value it parses to
GeoBodies ==
    { [parseFails |-> TRUE, data |-> NullData] } \cup
    [parseFails : {FALSE}, data : GeoData]

Statuses == { 200, 404, 500 }

NoGeoResponse ==
    [threw |-> FALSE, status |-> 0, body |-> [parseFails |-> FALSE, data |-> NullData]]

VARIABLES
    rgPc,        \* where the reverseGeocode call is: idle, fetch, json, done
    rgResponse,  \* what the endpoint answered to this call
    rgPromise,   \* the promise reverseGeocode returned
    ftPc,        \* where the findToilets call is: idle, fetch, json, done
    ftResponse,  \* what the feature endpoint answered to this call
    ftPromise,   \* the promise findToilets returned
    mvToilets,   \* MapView: the toilets prop
    mvBounds,    \* MapView: the bounds state, "null" until the map has loaded
    popOpen,     \* whether a ToiletPopupContent is mounted
    popToilet,   \* ToiletPopupContent: the toilet prop
    popAddress,  \* ToiletPopupContent: the address state
    popLoading,  \* ToiletPopupContent: the isLoading state
    popLookups,  \* the toilets whose reverseGeocode call is in flight for the popup
    appPc,       \* App: where requestLocation is: mounted, query, ended
    permission,  \* the browser's geolocation permission: prompt, granted, denied
    onchangeSet, \* whether permissionStatus.onchange has been assigned
    posPending,  \* whether getCurrentPosition has yet to call back
    location,    \* App: the location state
    status,      \* App: the status state
    locationName, \* App: the locationName state
    nameLookups, \* the reverseGeocode calls in flight for locationName
    mapCenter,   \* App: the mapCenter state
    mapZoom,     \* App: the mapZoom state
    toilets,     \* App: the toilets state
    isFinding,   \* App: the isFinding state
    findInFlight, \* whether a findToilets call of handleFindToilets is in flight
    alerted      \* the message of the last alert()

geoVars == << rgPc, rgResponse, rgPromise >>

findVars == << ftPc, ftResponse, ftPromise >>

mapVars == << mvToilets, mvBounds, popOpen, popToilet, popAddress, popLoading, popLookups >>

appVars ==
    << appPc, permission, onchangeSet, posPending, location, status, locationName,
       nameLookups, mapCenter, mapZoom, toilets, isFinding, findInFlight, alerted >>

vars ==
    << rgPc, rgResponse, rgPromise, ftPc, ftResponse, ftPromise,
       mvToilets, mvBounds, popOpen, popToilet, popAddress, popLoading, popLookups,
       appPc, permission, onchangeSet, posPending, location, status, locationName,
       nameLookups, mapCenter, mapZoom, toilets, isFinding, findInFlight, alerted >>

(***************************************************************************)
(* findToilets (src/services/geminiService.ts:28-123)                     *)
(***************************************************************************)
ToiletsStr == << "t", "o", "i", "l", "e", "t", "s" >>
StationStr == << "s", "t", "a", "t", "i", "o", "n" >>
YesStr == << "y", "e", "s" >>
NoStr == << "n", "o" >>
ZeroStr == << "0" >>
PublicToiletStr == << "p", "u", "b", "l", "i", "c", " " >> \o << "t", "o", "i", "l", "e", "t" >>
StationToiletStr == StationStr \o << " ", "t", "o", "i", "l", "e", "t" >>

AddressNotAvailable ==
    << "a", "d", "d", "r", "e", "s", "s", " ", "n", "o", "t", " ",
       "a", "v", "a", "i", "l", "a", "b", "l", "e" >>

OverpassFailedPrefix ==
    << "o", "v", "e", "r", "p", "a", "s", "s", " ", "a", "p", "i", " ",
       "f", "a", "i", "l", "e", "d", " ", "w", "i", "t", "h", " ",
       "s", "t", "a", "t", "u", "s", ":", " " >>

FindFailedMsg ==
    << "f", "a", "i", "l", "e", "d", " ", "t", "o", " ", "f", "i", "n", "d", " ",
       "n", "e", "a", "r", "b", "y", " ", "t", "o", "i", "l", "e", "t", "s", " ",
       "f", "r", "o", "m", " ",
       "o", "p", "e", "n", "s", "t", "r", "e", "e", "t", "m", "a", "p", "." >>

\* e.tags?.key: undefined when the element has no tags
Tag(e, key) == IF e.tags.present THEN e.tags[key] ELSE Undefined

\* x === 'literal'
Is(x, literal) == x = Str(literal)

\* line 65: the ways that name a parent
IsNamedWay(e) == e.type = "way" /\ Truthy(Tag(e, "name")) /\ e.nodes.present

RECURSIVE SetAlways(_, _, _)
\* SetAbsent without the has() test: a later way overwrites an earlier one
SetAlways(map, ids, name) ==
    IF ids = << >> THEN map
    ELSE SetAlways([k \in DOMAIN map \cup { Head(ids) } |->
                       IF k = Head(ids) THEN name ELSE map[k]],
                   Tail(ids), name)

RECURSIVE SetAbsent(_, _, _)
\* lines 67-71: set every node id of a way that the map does not hold yet
SetAbsent(map, ids, name) ==
    IF ids = << >> THEN map
    ELSE LET id == Head(ids)
             next == IF id \in DOMAIN map
                     THEN map
                     ELSE [k \in DOMAIN map \cup { id } |->
                              IF k = id THEN name ELSE map[k]]
         IN  SetAbsent(next, Tail(ids), name)

RECURSIVE ParentNameMap(_)
\* lines 64-72: the map from a node id to the name of its first named way
ParentNameMap(elements) ==
    IF elements = << >> THEN << >>
    ELSE LET front == ParentNameMap(SubSeq(elements, 1, Len(elements) - 1))
             last  == elements[Len(elements)]
         IN  IF IsNamedWay(last)
             THEN SetAbsent(front, last.nodes.ids, Tag(last, "name"))
             ELSE front

\* IsToiletElement with the toilets=yes test of a station left out
IsToiletElementAnyStation(e) ==
    \/ e.tags.present /\ e.tags.amenity = Str(ToiletsStr)
    \/ e.tags.present /\ e.tags.railway = Str(StationStr)

\* lines 74-76: the selection predicate
IsToiletElement(e) ==
    \/ Is(Tag(e, "amenity"), ToiletsStr)
    \/ Is(Tag(e, "railway"), StationStr) /\ Is(Tag(e, "toilets"), YesStr)

RECURSIVE ToiletElements(_)
\* line 74: elements.filter over the selection predicate
ToiletElements(elements) ==
    IF elements = << >> THEN << >>
    ELSE IF IsToiletElement(Head(elements))
         THEN << Head(elements) >> \o ToiletElements(Tail(elements))
         ELSE ToiletElements(Tail(elements))

\* a || b
Or(a, b) == IF Truthy(a) THEN a ELSE b

\* lines 79-82
Loc(e) ==
    [lat |-> Or(IF e.center.present THEN e.center.lat ELSE Undefined, e.lat),
     lng |-> Or(IF e.center.present THEN e.center.lon ELSE Undefined, e.lon)]

\* lines 83-88
ToiletAddressParts(e) ==
    FilterTruthy(<< Tag(e, "addr_street"), Tag(e, "addr_housenumber"),
                    Tag(e, "addr_postcode"), Tag(e, "addr_city") >>)

\* lines 90-97
ToiletName(e) ==
    IF Is(Tag(e, "railway"), StationStr)
    THEN IF Truthy(Tag(e, "name"))
         THEN ToStr(Tag(e, "name")) \o << " " >> \o StationToiletStr
         ELSE StationToiletStr
    ELSE IF Truthy(Tag(e, "name")) THEN ToStr(Tag(e, "name"))
    ELSE PublicToiletStr

\* lines 99-101
HousedIn(e, map) ==
    IF e.type = "node" /\ e.id \in DOMAIN map THEN map[e.id] ELSE Undefined

\* line 103
ToiletAddress(e) ==
    IF Len(ToiletAddressParts(e)) > 0
    THEN Join(ToiletAddressParts(e), CommaSpace)
    ELSE AddressNotAvailable

\* x?.toLowerCase()
LowerIfDefined(x) == IF x.t = "undefined" THEN x ELSE Str(ToLowerCase(x.v))

\* lines 78-115: the record of one selected element
ToToilet(e, map) ==
    [id |-> NumToString(e.id),
     name |-> ToLowerCase(ToiletName(e)),
     location |-> Loc(e),
     address |-> ToLowerCase(ToiletAddress(e)),
     housedIn |-> LowerIfDefined(HousedIn(e, map)),
     fee |-> Is(Tag(e, "fee"), NoStr) \/ Is(Tag(e, "fee"), ZeroStr),
     wheelchair |-> Is(Tag(e, "wheelchair"), YesStr),
     diaper |-> Is(Tag(e, "diaper"), YesStr)]

\* lines 61-117: the body of the try block once the response has been parsed
FtBody(data) ==
    IF ~data.isNull /\ data.hasElements
    THEN LET map == ParentNameMap(data.elements)
             toiletElements == ToiletElements(data.elements)
         IN  Return([i \in 1..Len(toiletElements) |-> ToToilet(toiletElements[i], map)])
    ELSE Return(<< >>)

\* FtCatch with the caught error thrown on as it is
FtCatchRethrows(outcome) == outcome

\* lines 119-122: the catch block
FtCatch(outcome) ==
    IF outcome.kind = "throw" THEN Throw(FindFailedMsg) ELSE outcome

(***************************************************************************)
(* The elements the feature endpoint is simulated to answer with          *)
(***************************************************************************)
MaxElements == 3

NoTags ==
    [present |-> FALSE, name |-> Undefined, amenity |-> Undefined,
     railway |-> Undefined, toilets |-> Undefined, addr_street |-> Undefined,
     addr_housenumber |-> Undefined, addr_postcode |-> Undefined,
     addr_city |-> Undefined, fee |-> Undefined, wheelchair |-> Undefined,
     diaper |-> Undefined]

Tags == [NoTags EXCEPT !.present = TRUE]

NoCenter == [present |-> FALSE, lat |-> Undefined, lon |-> Undefined]
Center(lat, lon) == [present |-> TRUE, lat |-> Num(lat), lon |-> Num(lon)]

NoNodes == [present |-> FALSE, ids |-> << >>]
Nodes(ids) == [present |-> TRUE, ids |-> ids]

\* A node as the endpoint returns it: its own coordinate, no centroid
Node(id, lat, lon, tags) ==
    [id |-> id, type |-> "node", lat |-> Num(lat), lon |-> Num(lon),
     center |-> NoCenter, tags |-> tags, nodes |-> NoNodes]

\* A way or relation as "out center" returns it: a centroid, no coordinate
Area(id, type, center, tags, nodes) ==
    [id |-> id, type |-> type, lat |-> Undefined, lon |-> Undefined,
     center |-> center, tags |-> tags, nodes |-> nodes]

MallName == Str(<< "M", "a", "l", "l" >>)
HubName == Str(<< "H", "u", "b" >>)
BlockName == Str(<< "B", "l", "o", "c", "k" >>)
UbiRoad == Str(<< "U", "b", "i", " ", "R", "d" >>)

ToiletTags == [Tags EXCEPT !.amenity = Str(ToiletsStr)]

ElementPool ==
    { \* toilet nodes, without and with address tags
      Node(1, << "2" >>, << "3" >>, [ToiletTags EXCEPT !.fee = Str(NoStr)]),
      Node(1, << "2" >>, << "3" >>,
           [ToiletTags EXCEPT !.addr_street = UbiRoad,
                              !.addr_housenumber = Str(<< "1", "2" >>)]),
      \* a station with toilets, on the equator
      Node(2, << "0" >>, << "3" >>,
           [Tags EXCEPT !.railway = Str(StationStr), !.toilets = Str(YesStr),
                        !.name = HubName]),
      \* a station without toilets and an untagged member node
      Node(2, << "2" >>, << "3" >>, [Tags EXCEPT !.railway = Str(StationStr), !.name = HubName]),
      Node(1, << "2" >>, << "3" >>, NoTags),
      \* named ways returned as parents
      Area(3, "way", Center(<< "4" >>, << "5" >>), [Tags EXCEPT !.name = MallName],
           Nodes(<< 1 >>)),
      Area(4, "way", Center(<< "4" >>, << "5" >>), [Tags EXCEPT !.name = HubName],
           Nodes(<< 2, 1 >>)),
      Area(3, "way", Center(<< "4" >>, << "5" >>), [Tags EXCEPT !.name = MallName],
           NoNodes),
      \* toilet ways: unnamed with its centroid on the equator, and named
      Area(1, "way", Center(<< "0" >>, << "5" >>), ToiletTags, Nodes(<< 1, 2 >>)),
      Area(1, "way", Center(<< "4" >>, << "5" >>), [ToiletTags EXCEPT !.name = BlockName],
           Nodes(<< 1 >>)),
      \* a toilet relation with its centroid on the prime meridian
      Area(2, "relation", Center(<< "4" >>, << "0" >>),
           [ToiletTags EXCEPT !.wheelchair = Str(YesStr)], NoNodes) }

ElementLists == UNION { [1..n -> ElementPool] : n \in 0..MaxElements }

\* JSON null, an object without elements, an object with an elements array
FindData ==
    { [isNull |-> TRUE, hasElements |-> FALSE, elements |-> << >>],
      [isNull |-> FALSE, hasElements |-> FALSE, elements |-> << >>] } \cup
    [isNull : {FALSE}, hasElements : {TRUE}, elements : ElementLists]

FindBodies ==
    { [parseFails |-> TRUE, data |-> [isNull |-> TRUE, hasElements |-> FALSE, elements |-> << >>]] }
    \cup [parseFails : {FALSE}, data : FindData]

NoFindResponse ==
    [threw |-> FALSE, status |-> 0,
     body |-> [parseFails |-> FALSE,
               data |-> [isNull |-> TRUE, hasElements |-> FALSE, elements |-> << >>]]]

FindInit ==
    /\ ftPc = "idle"
    /\ ftResponse = NoFindResponse
    /\ ftPromise = Pending

\* line 28: the caller calls findToilets, which runs up to await fetch
FtCall ==
    /\ ftPc = "idle"
    /\ ftPc' = "fetch"
    /\ ftResponse' = NoFindResponse
    /\ ftPromise' = Pending
    /\ UNCHANGED << geoVars, mapVars, appVars >>

\* line 55: fetch rejects (the transport fails); the catch block runs
FtFetchThrows ==
    /\ ftPc = "fetch"
    /\ ftPc' = "done"
    /\ ftResponse' = [NoFindResponse EXCEPT !.threw = TRUE]
    /\ ftPromise' = Settle(FtCatch(Throw(FetchFailedMsg)))
    /\ UNCHANGED << geoVars, mapVars, appVars >>

\* lines 55-59: fetch resolves with a response; a status that is not ok
\* throws, otherwise the function runs up to await response.json()
FtFetchResolves ==
    /\ ftPc = "fetch"
    /\ \E code \in Statuses, body \in FindBodies :
          /\ ftResponse' = [threw |-> FALSE, status |-> code, body |-> body]
          /\ IF ResponseOk(code)
             THEN /\ ftPc' = "json"
                  /\ ftPromise' = Pending
             ELSE /\ ftPc' = "done"
                  /\ ftPromise' =
                        Settle(FtCatch(Throw(OverpassFailedPrefix \o NumToString(code))))
    /\ UNCHANGED << geoVars, mapVars, appVars >>

\* lines 59-122: response.json() settles and the rest of the function runs
FtJsonSettles ==
    /\ ftPc = "json"
    /\ ftPc' = "done"
    /\ ftPromise' =
          IF ftResponse.body.parseFails
          THEN Settle(FtCatch(Throw(SyntaxErrorMsg)))
          ELSE Settle(FtCatch(FtBody(ftResponse.body.data)))
    /\ UNCHANGED ftResponse
    /\ UNCHANGED << geoVars, mapVars, appVars >>

\* the caller has taken the result
FtDone ==
    /\ ftPc = "done"
    /\ ftPc' = "idle"
    /\ ftResponse' = NoFindResponse
    /\ ftPromise' = Pending
    /\ UNCHANGED << geoVars, mapVars, appVars >>

FindNext == FtCall \/ FtFetchThrows \/ FtFetchResolves \/ FtJsonSettles \/ FtDone

GeoInit ==
    /\ rgPc = "idle"
    /\ rgResponse = NoGeoResponse
    /\ rgPromise = Pending

\* line 125: the caller calls reverseGeocode, which runs up to await fetch
RgCall ==
    /\ rgPc = "idle"
    /\ rgPc' = "fetch"
    /\ rgResponse' = NoGeoResponse
    /\ rgPromise' = Pending
    /\ UNCHANGED << findVars, mapVars, appVars >>

\* line 128: fetch rejects (the transport fails); the catch block runs
RgFetchThrows ==
    /\ rgPc = "fetch"
    /\ rgPc' = "done"
    /\ rgResponse' = [NoGeoResponse EXCEPT !.threw = TRUE]
    /\ rgPromise' = Settle(RgCatch(Throw(FetchFailedMsg)))
    /\ UNCHANGED << findVars, mapVars, appVars >>

\* lines 128-138: fetch resolves with a response; a status that is not ok
\* throws, otherwise the function runs up to await response.json()
RgFetchResolves ==
    /\ rgPc = "fetch"
    /\ \E code \in Statuses, body \in GeoBodies :
          /\ rgResponse' = [threw |-> FALSE, status |-> code, body |-> body]
          /\ IF ResponseOk(code)
             THEN /\ rgPc' = "json"
                  /\ rgPromise' = Pending
             ELSE /\ rgPc' = "done"
                  /\ rgPromise' =
                        Settle(RgCatch(Throw(NominatimFailedPrefix \o NumToString(code))))
    /\ UNCHANGED << findVars, mapVars, appVars >>

\* lines 138-179: response.json() settles and the rest of the function runs
RgJsonSettles ==
    /\ rgPc = "json"
    /\ rgPc' = "done"
    /\ rgPromise' =
          IF rgResponse.body.parseFails
          THEN Settle(RgCatch(Throw(SyntaxErrorMsg)))
          ELSE Settle(RgCatch(RgBody(rgResponse.body.data)))
    /\ UNCHANGED rgResponse
    /\ UNCHANGED << findVars, mapVars, appVars >>

\* the caller has taken the result
RgDone ==
    /\ rgPc = "done"
    /\ rgPc' = "idle"
    /\ rgResponse' = NoGeoResponse
    /\ rgPromise' = Pending
    /\ UNCHANGED << findVars, mapVars, appVars >>

GeoNext == RgCall \/ RgFetchThrows \/ RgFetchResolves \/ RgJsonSettles \/ RgDone

(***************************************************************************)
(* The two service calls as their callers see them: one promise           *)
(***************************************************************************)
\* lines 125-180: what reverseGeocode's promise settles to on a response
ReverseGeocode(response) ==
    Settle(RgCatch(
        IF response.threw THEN Throw(FetchFailedMsg)
        ELSE IF ~ResponseOk(response.status)
        THEN Throw(NominatimFailedPrefix \o NumToString(response.status))
        ELSE IF response.body.parseFails THEN Throw(SyntaxErrorMsg)
        ELSE RgBody(response.body.data)))

\* lines 28-123: what findToilets' promise settles to on a response
FindToilets(response) ==
    Settle(FtCatch(
        IF response.threw THEN Throw(FetchFailedMsg)
        ELSE IF ~ResponseOk(response.status)
        THEN Throw(OverpassFailedPrefix \o NumToString(response.status))
        ELSE IF response.body.parseFails THEN Throw(SyntaxErrorMsg)
        ELSE FtBody(response.body.data)))

MaxUiElements == 2

\* The responses the user interface is run against
UiGeoResponses ==
    { [NoGeoResponse EXCEPT !.threw = TRUE] } \cup
    { [threw |-> FALSE, status |-> 200, body |-> [parseFails |-> FALSE, data |-> d]] :
        d \in { NullData,
                [NullData EXCEPT !.isNull = FALSE,
                                 !.display_name = Str(<< "U", "b", "i", " ", "A", "v", "e" >>)] } }

UiFindResponses(maxElements) ==
    { [NoFindResponse EXCEPT !.threw = TRUE],
      [NoFindResponse EXCEPT !.status = 500] } \cup
    { [threw |-> FALSE, status |-> 200,
       body |-> [parseFails |-> FALSE,
                 data |-> [isNull |-> FALSE, hasElements |-> TRUE, elements |-> l]]] :
        l \in UNION { [1..n -> ElementPool] : n \in 0..maxElements } }

\* The toilet lists findToilets can hand to the map
UiToiletLists ==
    { FindToilets(r).value :
        r \in { x \in UiFindResponses(MaxUiElements) : FindToilets(x).kind = "resolved" } }

(***************************************************************************)
(* MapView and ToiletPopupContent (src/unnamed/part_000)                  *)
(***************************************************************************)
MaxLookups == 2

CouldNotLookUpMsg ==
    << "c", "o", "u", "l", "d", " ", "n", "o", "t", " ", "l", "o", "o", "k", " ",
       "u", "p", " ", "a", "d", "d", "r", "e", "s", "s" >>

\* no component is mounted
NoToilet ==
    [id |-> << >>, name |-> << >>,
     location |-> [lat |-> Undefined, lng |-> Undefined],
     address |-> << >>, housedIn |-> Undefined,
     fee |-> FALSE, wheelchair |-> FALSE, diaper |-> FALSE]

MapInit ==
    /\ mvToilets = << >>
    /\ mvBounds = "null"
    /\ popOpen = FALSE
    /\ popToilet = NoToilet
    /\ popAddress = << >>
    /\ popLoading = FALSE
    /\ popLookups = << >>

\* lines 69-86: the effect; fetchAddress calls reverseGeocode only while the
\* address state is the sentinel
EffectStartsLookup(address) == address = AddressNotAvailable

\* the component leaves the tree; what its calls resolve to is dropped
Unmount ==
    /\ popOpen' = FALSE
    /\ popToilet' = NoToilet
    /\ popAddress' = << >>
    /\ popLoading' = FALSE
    /\ popLookups' = << >>

\* lines 53-56, 127: the map loads and MapEventsHandler sets the bounds
MapLoad ==
    /\ mvBounds = "null"
    /\ mvBounds' = "set"
    /\ UNCHANGED << mvToilets, popOpen, popToilet, popAddress, popLoading, popLookups >>
    /\ UNCHANGED << geoVars, findVars, appVars >>

\* lines 117-143: App renders MapView with the toilets of a new search. The
\* markers are keyed by toilet.id: a mounted popup whose key is in the new
\* list keeps its state and gets the new toilet as its prop, which runs the
\* effect again (line 86); a popup whose key is gone is unmounted.
MapRender ==
    \E list \in UiToiletLists :
        /\ UNCHANGED << geoVars, findVars, appVars >>
        /\ mvToilets' = list
        /\ UNCHANGED mvBounds
        /\ IF ~popOpen
           THEN UNCHANGED << popOpen, popToilet, popAddress, popLoading, popLookups >>
           ELSE IF \E i \in DOMAIN list : list[i].id = popToilet.id
           THEN LET i == CHOOSE k \in DOMAIN list :
                             /\ list[k].id = popToilet.id
                             /\ \A j \in 1..(k - 1) : list[j].id # popToilet.id
                IN  /\ popToilet' = list[i]
                    /\ UNCHANGED << popOpen, popAddress >>
                    /\ IF EffectStartsLookup(popAddress)
                       THEN /\ Len(popLookups) < MaxLookups
                            /\ popLoading' = TRUE
                            /\ popLookups' = Append(popLookups, list[i])
                       ELSE UNCHANGED << popLoading, popLookups >>
           ELSE Unmount

\* lines 137-143, 65-86: the user opens the popup of a visible marker; the
\* component mounts with address = toilet.address and its effect runs
OpenPopup ==
    /\ mvBounds = "set"
    /\ ~popOpen
    /\ \E i \in DOMAIN mvToilets :
          /\ popOpen' = TRUE
          /\ popToilet' = mvToilets[i]
          /\ popAddress' = mvToilets[i].address
          /\ IF EffectStartsLookup(mvToilets[i].address)
             THEN /\ popLoading' = TRUE
                  /\ popLookups' = << mvToilets[i] >>
             ELSE /\ popLoading' = FALSE
                  /\ popLookups' = << >>
    /\ UNCHANGED << mvToilets, mvBounds >>
    /\ UNCHANGED << geoVars, findVars, appVars >>

\* the user closes the popup and its content is unmounted
ClosePopup ==
    /\ popOpen
    /\ Unmount
    /\ UNCHANGED << mvToilets, mvBounds >>
    /\ UNCHANGED << geoVars, findVars, appVars >>

\* lines 74-81: a reverseGeocode call of the popup settles; the address is
\* set, isLoading is cleared and the effect runs again on the new address
LookupSettles ==
    /\ popOpen
    /\ \E i \in DOMAIN popLookups, response \in UiGeoResponses :
          LET promise == ReverseGeocode(response)
              newAddress == IF promise.kind = "resolved"
                            THEN promise.value
                            ELSE CouldNotLookUpMsg
              rest == [k \in 1..(Len(popLookups) - 1) |->
                          IF k < i THEN popLookups[k] ELSE popLookups[k + 1]]
          IN  /\ popAddress' = newAddress
              /\ IF newAddress # popAddress /\ EffectStartsLookup(newAddress)
                 THEN /\ popLoading' = TRUE
                      /\ popLookups' = Append(rest, popToilet)
                 ELSE /\ popLoading' = FALSE
                      /\ popLookups' = rest
    /\ UNCHANGED << mvToilets, mvBounds, popOpen, popToilet >>
    /\ UNCHANGED << geoVars, findVars, appVars >>

MapNext == MapLoad \/ MapRender \/ OpenPopup \/ ClosePopup \/ LookupSettles

(***************************************************************************)
(* App (src/App.tsx)                                                       *)
(***************************************************************************)
DEFAULT_ZOOM == 12
LocatedZoom == 17

NoLocation == [isNull |-> TRUE, lat |-> "", lng |-> ""]
DEFAULT_CENTER == [isNull |-> FALSE, lat |-> "1.3521", lng |-> "103.8198"]

\* The positions the browser is simulated to report
Positions ==
    { [isNull |-> FALSE, lat |-> "1.3000", lng |-> "103.8500"],
      [isNull |-> FALSE, lat |-> "0", lng |-> "0"] }

\* GeolocationPositionError: code 1 is PERMISSION_DENIED
PositionErrors ==
    { [code |-> 1, message |-> "user denied geolocation"],
      [code |-> 3, message |-> "timeout expired"] }

PermissionStates == { "prompt", "granted", "denied" }

AwaitingPermissionsMsg ==
    << "a", "w", "a", "i", "t", "i", "n", "g", " ",
       "p", "e", "r", "m", "i", "s", "s", "i", "o", "n", "s", ".", ".", "." >>
NotApplicableMsg == << "n", "/", "a" >>
ResolvingLocationMsg ==
    << "r", "e", "s", "o", "l", "v", "i", "n", "g", " ",
       "l", "o", "c", "a", "t", "i", "o", "n", ".", ".", "." >>
CouldNotResolveMsg ==
    << "c", "o", "u", "l", "d", " ", "n", "o", "t", " ",
       "r", "e", "s", "o", "l", "v", "e", " ",
       "l", "o", "c", "a", "t", "i", "o", "n" >>
NoToiletsFoundMsg ==
    << "n", "o", " ", "t", "o", "i", "l", "e", "t", "s", " ",
       "f", "o", "u", "n", "d", " ", "n", "e", "a", "r", "b", "y", "." >>
CannotFindWithoutLocationMsg ==
    << "c", "a", "n", "n", "o", "t", " ", "f", "i", "n", "d", " ",
       "t", "o", "i", "l", "e", "t", "s", " ",
       "w", "i", "t", "h", "o", "u", "t", " ", "y", "o", "u", "r", " ",
       "l", "o", "c", "a", "t", "i", "o", "n", "." >>
UnexpectedErrorMsg ==
    << "a", "n", " ", "u", "n", "e", "x", "p", "e", "c", "t", "e", "d", " ",
       "e", "r", "r", "o", "r", " ", "o", "c", "c", "u", "r", "r", "e", "d", "." >>

\* What the promises of the two services settle to, over the responses above
MaxAppElements == 1

UiFindPromises == { FindToilets(r) : r \in UiFindResponses(MaxAppElements) }
UiGeoPromises == { ReverseGeocode(r) : r \in UiGeoResponses }

\* lines 22-34: the initial state of App
AppInit ==
    /\ appPc = "mounted"
    /\ permission = "prompt"
    /\ onchangeSet = FALSE
    /\ posPending = FALSE
    /\ location = NoLocation
    /\ status = "checking permissions..."
    /\ locationName = AwaitingPermissionsMsg
    /\ nameLookups = 0
    /\ mapCenter = DEFAULT_CENTER
    /\ mapZoom = DEFAULT_ZOOM
    /\ toilets = << >>
    /\ isFinding = FALSE
    /\ findInFlight = FALSE
    /\ alerted = << >>

\* lines 39-43: the browser has no geolocation or no permissions API
RequestLocationUnsupported ==
    /\ appPc = "mounted"
    /\ appPc' = "ended"
    /\ status' = "geolocation not supported"
    /\ locationName' = NotApplicableMsg
    /\ UNCHANGED << permission, onchangeSet, posPending, location, nameLookups,
                    mapCenter, mapZoom, toilets, isFinding, findInFlight, alerted >>
    /\ UNCHANGED << geoVars, findVars, mapVars >>

\* lines 45-46: requestLocation runs up to await navigator.permissions.query
RequestLocationQuery ==
    /\ appPc = "mounted"
    /\ appPc' = "query"
    /\ UNCHANGED << permission, onchangeSet, posPending, location, status,
                    locationName, nameLookups, mapCenter, mapZoom, toilets,
                    isFinding, findInFlight, alerted >>
    /\ UNCHANGED << geoVars, findVars, mapVars >>

\* lines 100-103: the query rejects
QueryRejects ==
    /\ appPc = "query"
    /\ appPc' = "ended"
    /\ status' = "could not check permissions."
    /\ UNCHANGED << permission, onchangeSet, posPending, location, locationName,
                    nameLookups, mapCenter, mapZoom, toilets, isFinding,
                    findInFlight, alerted >>
    /\ UNCHANGED << geoVars, findVars, mapVars >>

\* lines 46-98: the query resolves; when the permission is not denied the
\* position is requested and the onchange handler is assigned
QueryResolves ==
    /\ appPc = "query"
    /\ appPc' = "ended"
    /\ IF permission = "denied"
       THEN /\ status' = "access denied. enable in browser settings."
            /\ locationName' = NotApplicableMsg
            /\ UNCHANGED << onchangeSet, posPending >>
       ELSE /\ status' = "requesting location..."
            /\ posPending' = TRUE
            /\ onchangeSet' = TRUE
            /\ UNCHANGED locationName
    /\ UNCHANGED << permission, location, nameLookups, mapCenter, mapZoom,
                    toilets, isFinding, findInFlight, alerted >>
    /\ UNCHANGED << geoVars, findVars, mapVars >>

\* lines 63-75: the success callback of getCurrentPosition, up to
\* await reverseGeocode
PositionSuccess ==
    /\ posPending
    /\ \E position \in Positions :
          /\ location' = position
          /\ mapCenter' = position
    /\ posPending' = FALSE
    /\ status' = "access granted"
    /\ mapZoom' = LocatedZoom
    /\ locationName' = ResolvingLocationMsg
    /\ nameLookups' = nameLookups + 1
    /\ UNCHANGED << appPc, permission, onchangeSet, toilets, isFinding,
                    findInFlight, alerted >>
    /\ UNCHANGED << geoVars, findVars, mapVars >>

\* lines 81-88: the error callback of getCurrentPosition
PositionError ==
    /\ posPending
    /\ \E error \in PositionErrors :
          status' = IF error.code = 1
                    THEN "access denied."
                    ELSE "error: " \o error.message
    /\ posPending' = FALSE
    /\ locationName' = NotApplicableMsg
    /\ UNCHANGED << appPc, permission, onchangeSet, location, nameLookups,
                    mapCenter, mapZoom, toilets, isFinding, findInFlight, alerted >>
    /\ UNCHANGED << geoVars, findVars, mapVars >>

\* lines 75-79: the reverseGeocode call of the success callback settles
NameLookupSettles ==
    /\ nameLookups > 0
    /\ nameLookups' = nameLookups - 1
    /\ \E promise \in UiGeoPromises :
          locationName' = IF promise.kind = "resolved"
                          THEN promise.value
                          ELSE CouldNotResolveMsg
    /\ UNCHANGED << appPc, permission, onchangeSet, posPending, location, status,
                    mapCenter, mapZoom, toilets, isFinding, findInFlight, alerted >>
    /\ UNCHANGED << geoVars, findVars, mapVars >>

\* lines 92-98: the user changes the permission and the browser fires
\* the change event
PermissionChange ==
    /\ \E state \in PermissionStates \ { permission } :
          /\ permission' = state
          /\ IF onchangeSet /\ state = "denied"
             THEN /\ status' = "access denied."
                  /\ locationName' = NotApplicableMsg
                  /\ location' = NoLocation
             ELSE UNCHANGED << status, locationName, location >>
    /\ UNCHANGED << appPc, onchangeSet, posPending, nameLookups, mapCenter,
                    mapZoom, toilets, isFinding, findInFlight, alerted >>
    /\ UNCHANGED << geoVars, findVars, mapVars >>

\* lines 195-197: the find button is disabled without a location and
\* while a search runs
FindButtonEnabled == ~(location.isNull \/ isFinding)

\* lines 123-130: a click on the find button runs handleFindToilets up to
\* await findToilets
HandleFindToilets ==
    /\ FindButtonEnabled
    /\ IF location.isNull
       THEN /\ alerted' = CannotFindWithoutLocationMsg
            /\ UNCHANGED << isFinding, findInFlight >>
       ELSE /\ isFinding' = TRUE
            /\ findInFlight' = TRUE
            /\ UNCHANGED alerted
    /\ UNCHANGED << appPc, permission, onchangeSet, posPending, location, status,
                    locationName, nameLookups, mapCenter, mapZoom, toilets >>
    /\ UNCHANGED << geoVars, findVars, mapVars >>

\* IsFindingAfter with setIsFinding(false) as the last statement of the try
IsFindingAfterTryOnly(promise) == promise.kind = "rejected"

\* lines 138-140: the finally block runs on both paths
IsFindingAfter(promise) == FALSE

\* lines 130-140: the findToilets call settles and handleFindToilets runs on
FindSettles ==
    /\ findInFlight
    /\ findInFlight' = FALSE
    /\ \E promise \in UiFindPromises :
          /\ IF promise.kind = "resolved"
             THEN /\ toilets' = promise.value
                  /\ alerted' = IF Len(promise.value) = 0
                                THEN NoToiletsFoundMsg
                                ELSE alerted
             ELSE /\ alerted' = IF promise.error # << >>
                                THEN promise.error
                                ELSE UnexpectedErrorMsg
                  /\ UNCHANGED toilets
          /\ isFinding' = IsFindingAfter(promise)
    /\ UNCHANGED << appPc, permission, onchangeSet, posPending, location, status,
                    locationName, nameLookups, mapCenter, mapZoom >>
    /\ UNCHANGED << geoVars, findVars, mapVars >>

AppNext ==
    \/ RequestLocationUnsupported \/ RequestLocationQuery \/ QueryRejects
    \/ QueryResolves \/ PositionSuccess \/ PositionError \/ NameLookupSettles
    \/ PermissionChange \/ HandleFindToilets \/ FindSettles

Init == GeoInit /\ FindInit /\ MapInit /\ AppInit

GeoSpec == Init /\ [][GeoNext]_vars

FindSpec == Init /\ [][FindNext]_vars

MapSpec == Init /\ [][MapNext]_vars

AppSpec == Init /\ [][AppNext]_vars


(***************************************************************************)
(* Claims about reverseGeocode, checked under GeoSpec                     *)
(***************************************************************************)
RECURSIVE Split(_)
\* The components of a string between its ", " separators
Split(s) ==
    IF \E i \in 1..(Len(s) - 1) : s[i] = "," /\ s[i + 1] = " "
    THEN LET i == CHOOSE k \in 1..(Len(s) - 1) :
                     /\ s[k] = "," /\ s[k + 1] = " "
                     /\ \A j \in 1..(k - 1) : ~(s[j] = "," /\ s[j + 1] = " ")
         IN  << SubSeq(s, 1, i - 1) >> \o Split(SubSeq(s, i + 2, Len(s)))
    ELSE << s >>

\* The call has ended on a response that was fetched, was ok and was parsed
GeoParsed ==
    /\ rgPc = "done"
    /\ ~rgResponse.threw
    /\ ResponseOk(rgResponse.status)
    /\ ~rgResponse.body.parseFails

GeoDataNow == rgResponse.body.data

\* A field of the documented shape: absent or a string
StringOrAbsent(x) == x.t \in { "undefined", "string" }

DocumentedShape(data) ==
    /\ StringOrAbsent(data.display_name)
    /\ StringOrAbsent(data.error)
    /\ \A f \in { "house_number", "road", "suburb", "city", "postcode" } :
          StringOrAbsent(data.address[f])

\* The address object yields at least one component
YieldsComponent(data) ==
    /\ ~data.isNull
    /\ data.address.present
    /\ \E f \in { "house_number", "road", "suburb", "city", "postcode" } :
          Truthy(data.address[f])

\* The call has ended by returning the structured address string
StructuredPath ==
    /\ GeoParsed
    /\ YieldsComponent(GeoDataNow)
    /\ ~CityThrows(GeoDataNow.address)

\* C1: reverseGeocode never fails to its caller: whatever the endpoint did
\* (fetch threw, a status that is not ok, a body that does not parse, a body
\* that parses to null or to an object of unexpected shapes), the promise is
\* never rejected, and once the call has ended it is resolved.
C1_NeverRejects ==
    /\ rgPromise.kind # "rejected"
    /\ rgPc = "done" => rgPromise.kind = "resolved"

\* a call that ended on a body that parsed to null
C1_Witness ==
    /\ GeoParsed
    /\ GeoDataNow.isNull
    /\ rgPromise.kind = "resolved"

\* C3: for every parsed response the result follows the tier order:
\* the structured string if the address yields a component, else the
\* lower-cased display_name if present, else "location lookup failed: <error>"
\* lower-cased if error is present, else exactly "could not determine address".
\* Stated for the bodies of the documented shape (fields absent or strings)
\* and for the null body, which has none of the three.
C3_Expected(data) ==
    IF YieldsComponent(data)
    THEN ToLowerCase(Join(Dedup(AddressParts(data.address)), CommaSpace))
    ELSE IF ~data.isNull /\ Truthy(data.display_name)
    THEN ToLowerCase(ToStr(data.display_name))
    ELSE IF ~data.isNull /\ Truthy(data.error)
    THEN LookupFailedPrefix \o ToLowerCase(ToStr(data.error))
    ELSE CouldNotDetermineMsg

C3_TierOrder ==
    (GeoParsed /\ DocumentedShape(GeoDataNow))
        => /\ rgPromise.kind = "resolved"
           /\ rgPromise.value = C3_Expected(GeoDataNow)

\* C4: on the structured path the components are house number, road, suburb,
\* then the city part: the single token "singapore <postcode>" (or
\* "singapore") when city is singapore in any case, and otherwise city then
\* postcode as separate tokens.
C4_Opt(x) == IF Truthy(x) THEN << x >> ELSE << >>

C4_CityPart(adr) ==
    IF Truthy(adr.city) /\ ToLowerCase(ToStr(adr.city)) = SingaporeStr
    THEN IF Truthy(adr.postcode)
         THEN << Str(SingaporeStr \o << " " >> \o ToStr(adr.postcode)) >>
         ELSE << Str(SingaporeStr) >>
    ELSE C4_Opt(adr.city) \o C4_Opt(adr.postcode)

C4_Tokens(adr) ==
    Dedup(C4_Opt(adr.house_number) \o C4_Opt(adr.road) \o C4_Opt(adr.suburb)
          \o C4_CityPart(adr))

C4_ComponentOrder ==
    StructuredPath =>
        /\ rgPromise.kind = "resolved"
        /\ Split(rgPromise.value) =
              [i \in 1..Len(C4_Tokens(GeoDataNow.address)) |->
                  ToLowerCase(ToStr(C4_Tokens(GeoDataNow.address)[i]))]

\* house number, road and a suburb ahead of the one token "singapore 12"
C4_Witness ==
    /\ StructuredPath
    /\ Truthy(GeoDataNow.address.house_number)
    /\ Truthy(GeoDataNow.address.road)
    /\ GeoDataNow.address.suburb = Str(<< "U", "b", "i" >>)
    /\ GeoDataNow.address.city = Str(<< "S", "i", "n", "g", "a", "p", "o", "r", "e" >>)
    /\ Truthy(GeoDataNow.address.postcode)
    /\ Len(Split(rgPromise.value)) = 4
    /\ Split(rgPromise.value)[4] = SingaporeStr \o << " ", "1", "2" >>

\* C8: no two of the ", "-separated components of the returned structured
\* string are equal.
C8_DistinctComponents ==
    StructuredPath =>
        \A i, j \in DOMAIN Split(rgPromise.value) :
            i # j => Split(rgPromise.value)[i] # Split(rgPromise.value)[j]


(***************************************************************************)
(* Claims about findToilets, checked under FindSpec                       *)
(***************************************************************************)
\* The call has ended on a failure of the endpoint
FindUpstreamFailed ==
    /\ ftPc = "done"
    /\ \/ ftResponse.threw
       \/ ~ResponseOk(ftResponse.status)
       \/ ftResponse.body.parseFails

\* The call has ended on a parsed body that holds an elements array
FindParsed ==
    /\ ftPc = "done"
    /\ ~ftResponse.threw
    /\ ResponseOk(ftResponse.status)
    /\ ~ftResponse.body.parseFails
    /\ ftResponse.body.data.hasElements

FindElementsNow == ftResponse.body.data.elements

\* C2: a transport failure, a status that is not ok and a body that does not
\* parse each reject findToilets with the one fixed message, whatever the
\* status or the error underneath, and none resolves to a result.
C2_OneGenericError ==
    FindUpstreamFailed =>
        /\ ftPromise.kind = "rejected"
        /\ ftPromise.error = FindFailedMsg

\* a call that ended on a 500 response
C2_Witness ==
    /\ ftPc = "done"
    /\ ~ftResponse.threw
    /\ ftResponse.status = 500
    /\ ftPromise.kind = "rejected"

\* The selection of the claims, stated on the tags
Selected(e) ==
    /\ e.tags.present
    /\ \/ e.tags.amenity = Str(ToiletsStr)
       \/ e.tags.railway = Str(StationStr) /\ e.tags.toilets = Str(YesStr)

SelectedIndexes(elements) == { i \in DOMAIN elements : Selected(elements[i]) }

\* The index of the k-th selected element
NthSelected(elements, k) ==
    CHOOSE i \in SelectedIndexes(elements) :
        Cardinality({ j \in SelectedIndexes(elements) : j <= i }) = k

\* The named ways that hold a node id in their member list
ContainingWays(elements, id) ==
    { i \in DOMAIN elements :
        /\ elements[i].type = "way"
        /\ elements[i].tags.present
        /\ Truthy(elements[i].tags.name)
        /\ elements[i].nodes.present
        /\ \E n \in DOMAIN elements[i].nodes.ids : elements[i].nodes.ids[n] = id }

FirstContainingWay(elements, id) ==
    CHOOSE i \in ContainingWays(elements, id) :
        \A j \in ContainingWays(elements, id) : i <= j

\* C5: a toilet node held by a named way gets housedIn equal to the
\* lower-cased name of the first such way in input order; toilet ways and
\* relations, and nodes in no named way, get none.
C5_HousedInFirstWay ==
    FindParsed =>
        /\ ftPromise.kind = "resolved"
        /\ Len(ftPromise.value) = Cardinality(SelectedIndexes(FindElementsNow))
        /\ \A k \in DOMAIN ftPromise.value :
              LET e == FindElementsNow[NthSelected(FindElementsNow, k)]
              IN  IF e.type = "node" /\ ContainingWays(FindElementsNow, e.id) # { }
                  THEN ftPromise.value[k].housedIn =
                          Str(ToLowerCase(ToStr(
                              FindElementsNow[FirstContainingWay(FindElementsNow, e.id)].tags.name)))
                  ELSE ftPromise.value[k].housedIn = Undefined

\* a toilet node held by two named ways of different names, the first one kept
C5_Witness ==
    /\ FindParsed
    /\ \E k \in DOMAIN ftPromise.value :
          LET e == FindElementsNow[NthSelected(FindElementsNow, k)]
          IN  /\ e.type = "node"
              /\ \E a, b \in ContainingWays(FindElementsNow, e.id) :
                    /\ a < b
                    /\ FindElementsNow[a].tags.name # FindElementsNow[b].tags.name
              /\ ftPromise.value[k].housedIn =
                    Str(ToLowerCase(ToStr(
                        FindElementsNow[FirstContainingWay(FindElementsNow, e.id)].tags.name)))

\* C6: a successful response yields exactly one record per selected element,
\* in the order of the elements array, and none for any other element.
C6_OneRecordPerSelected ==
    FindParsed =>
        /\ ftPromise.kind = "resolved"
        /\ Len(ftPromise.value) = Cardinality(SelectedIndexes(FindElementsNow))
        /\ \A k \in DOMAIN ftPromise.value :
              LET e == FindElementsNow[NthSelected(FindElementsNow, k)]
              IN  /\ ftPromise.value[k].id = NumToString(e.id)
                  /\ ftPromise.value[k].name = ToLowerCase(ToiletName(e))
                  /\ ftPromise.value[k].address = ToLowerCase(ToiletAddress(e))

\* two different toilets around an element that is none, order kept
C6_Witness ==
    /\ FindParsed
    /\ Len(FindElementsNow) = 3
    /\ Selected(FindElementsNow[1])
    /\ ~Selected(FindElementsNow[2])
    /\ Selected(FindElementsNow[3])
    /\ FindElementsNow[1].id # FindElementsNow[3].id
    /\ Len(ftPromise.value) = 2
    /\ ftPromise.value[1].id = NumToString(FindElementsNow[1].id)
    /\ ftPromise.value[2].id = NumToString(FindElementsNow[3].id)

\* C7: the location of a record is the centroid of its element, both
\* coordinates, whenever the element has one, a coordinate of 0 included, and
\* its direct coordinate only when it has none.
C7_CentroidWhenPresent ==
    FindParsed =>
        /\ Len(ftPromise.value) = Cardinality(SelectedIndexes(FindElementsNow))
        /\ \A k \in DOMAIN ftPromise.value :
              LET e == FindElementsNow[NthSelected(FindElementsNow, k)]
              IN  ftPromise.value[k].location =
                     IF e.center.present
                     THEN [lat |-> e.center.lat, lng |-> e.center.lon]
                     ELSE [lat |-> e.lat, lng |-> e.lon]


(***************************************************************************)
(* Claims about the popup, checked under MapSpec                          *)
(***************************************************************************)
\* C9: the popup starts a lookup only while its displayed address is the
\* sentinel "address not available", never for a toilet whose record
\* carries a tag-derived address, and no more once a result has replaced the
\* sentinel.
C9_LookupOnlyWithoutAddress ==
    [][Len(popLookups') > Len(popLookups) =>
          /\ popAddress' = AddressNotAvailable
          /\ popLookups'[Len(popLookups')].address = AddressNotAvailable]_vars


(***************************************************************************)
(* Claims about App, checked under AppSpec                                *)
(***************************************************************************)
\* C10: isFinding is true only while a findToilets call of
\* handleFindToilets is in flight, and the step in which that call settles
\* sets it back to false, on the success path and on the failure path alike:
\* the find button is never left disabled by a search that has ended.
C10_FindingEnds ==
    /\ isFinding => findInFlight
    /\ [][/\ isFinding' => findInFlight'
          /\ (findInFlight /\ ~findInFlight') => ~isFinding']_vars

\* a search that failed and one that succeeded, the button enabled again
C10_Witness ==
    /\ ~isFinding
    /\ ~findInFlight
    /\ alerted = FindFailedMsg
    /\ toilets # << >>


\* The onchange handler of lines 92-98 is assigned and the permission it
\* reads is 'denied': the handler has run its denied branch
DeniedObserved == onchangeSet /\ permission = "denied"

\* C11: once the permission-change handler has observed 'denied', no step
\* writes to locationName anything but 'n/a' and no step sets location to a
\* coordinate, whatever the order of the position callback, the settling of
\* the reverseGeocode call it started and the permission change
C11_DeniedIsFinal ==
    [][DeniedObserved =>
          /\ locationName' # locationName => locationName' = NotApplicableMsg
          /\ location' # location => location'.isNull]_vars

=============================================================================
